---- MODULE Spec2Model ----
(***************************************************************************)
(* Model of src/src/fs.rs: read_dir / ReadDir (an iterator over the        *)
(* records the getdents64 system call returns) / DirEntry.                 *)
(*                                                                         *)
(* Bytes are integers 0..255.  A dirent64 record is kept as its fields:    *)
(* d_ino, d_reclen and d_name, where d_name holds the leading bytes of the *)
(* name field (the name, its NUL terminator and possibly bytes left behind *)
(* it); the bytes from there up to d_reclen are zero padding.  The buffer  *)
(* of the iterator is kept as the records the kernel wrote into it, each   *)
(* with the byte offset it starts at.  Offsets, lengths and capacities are *)
(* byte counts, as in the code.                                            *)
(***************************************************************************)
EXTENDS Integers, Sequences, FiniteSets, TLC

\* ------------------------------------------------------------------ bounds
\* Largest number of records in the directory.
MaxRecords == 3
\* Largest number of system calls that fail during one run.
MaxFaults == 2
\* Largest number of calls of next() on the iterator.
MaxCalls == 4

\* --------------------------------------------------------- program constants
BUFSIZ == 8192
MaxBufCapacity == 1024 * 1024
EINTR == 4
\* offset of d_name in dirent64: d_ino 8, d_off 8, d_reclen 2, d_type 1
DirentHeader == 19

\* Error numbers the kernel reports besides EINTR: ENOENT, EIO.
OpenErrnos == {EINTR, 2}
FstatErrnos == {EINTR, 5}
GetdentsErrnos == {EINTR, 5}
\* EBADF: the answer of the kernel to a call on a descriptor that is not open.
BadFd == {9}

\* ------------------------------------------------------------ byte strings
Slash == 47

\* bytes before the first NUL of a C string, spec side: the longest prefix
\* without a zero byte.
CStr(s) ==
  LET zeros == {i \in 1..Len(s) : s[i] = 0}
      n == IF zeros = {} THEN Len(s)
           ELSE (CHOOSE i \in zeros : \A j \in zeros : i <= j) - 1
  IN SubSeq(s, 1, n)

\* libc::strlen: scan from the first byte of the field for the terminator; the
\* bytes behind the explicit ones are zero padding.
RECURSIVE strlenFrom(_, _)
strlenFrom(s, i) ==
  IF i > Len(s) THEN i - 1
  ELSE IF s[i] = 0 THEN i - 1
  ELSE strlenFrom(s, i + 1)

strlenOffByOne(s) == strlenFrom(s, 1) + 1

strlen(s) == strlenFrom(s, 1)

\* Path::join on byte paths: an absolute name replaces the root, otherwise a
\* separator is added unless the root is empty or already ends with one.
Join(r, name) ==
  IF name # <<>> /\ name[1] = Slash THEN name
  ELSE IF r # <<>> /\ r[Len(r)] # Slash THEN r \o <<Slash>> \o name
  ELSE r \o name

\* ------------------------------------------------------------- environment
Rec(ino, reclen, name) == [d_ino |-> ino, d_reclen |-> reclen, d_name |-> name]

\* The records a directory of the model is made of.  Lengths are multiples of
\* 8 and at least header + name + NUL; the kernel may pad a record.
Catalog ==
  { Rec(1, 24, <<46, 0>>),             \* "."
    Rec(2, 24, <<46, 46, 0, 46>>),     \* "..", a stale byte behind the NUL
    Rec(0, 24, <<97, 0>>),             \* "a", identity zero
    Rec(5, 4096, <<46, 46, 46, 0>>),   \* "..."
    Rec(6, 4096, <<46, 97, 0>>),       \* ".a"
    Rec(8, 8144, <<97, 98, 0, 99>>) }  \* "ab"

RECURSIVE SeqsUpTo(_)
SeqsUpTo(n) ==
  IF n = 0 THEN {<<>>}
  ELSE LET shorter == SeqsUpTo(n - 1)
       IN shorter \union
          { Append(s, r) : s \in {t \in shorter : Len(t) = n - 1}, r \in Catalog }

\* Directories: sequences of distinct records, in the order the kernel
\* returns them.
Directories ==
  { s \in SeqsUpTo(MaxRecords) :
      \A i, j \in 1..Len(s) : i # j => s[i] # s[j] }

\* Paths given to read_dir: "d", "d/", and one with an interior NUL.
Roots == { <<100>>, <<100, Slash>>, <<100, 0, 100>> }

\* 64-bit unsigned integers (usize), kept as three limbs: l2 * 2^42 + l1 * 2^21
\* + l0, with l0, l1 < 2^21 and l2 < 2^22.
Limb == 2 ^ 21
TopLimb == 2 ^ 22
U64(n) == [l2 |-> 0, l1 |-> n \div Limb, l0 |-> n % Limb]
U64Less(a, b) ==
  \/ a.l2 < b.l2
  \/ a.l2 = b.l2 /\ a.l1 < b.l1
  \/ a.l2 = b.l2 /\ a.l1 = b.l1 /\ a.l0 < b.l0
\* the value of a u64 that is below 2^31
U64Int(a) == a.l1 * Limb + a.l0
\* a + n on usize, n < 2^21, with the carry out of bit 63
U64Sum(a, n) ==
  LET s0 == a.l0 + n
      s1 == a.l1 + (s0 \div Limb)
      s2 == a.l2 + (s1 \div Limb)
  IN [l2 |-> s2 % TopLimb, l1 |-> s1 % Limb, l0 |-> s0 % Limb,
      carry |-> s2 \div TopLimb]
U64Add(a, n) ==
  LET r == U64Sum(a, n) IN [l2 |-> r.l2, l1 |-> r.l1, l0 |-> r.l0]

\* st_size values fstat64 reports for the directory (an off_t >= 0, cast to
\* usize).
StSizes == {U64(0), U64(8193)}

\* The largest st_size: 2^63 - 1.
MaxStSize == [l2 |-> Limb - 1, l1 |-> Limb - 1, l0 |-> Limb - 1]

\* st_size values around the multiples of BUFSIZ, the upper clamp, the limbs
\* and the largest off_t.
CapSizes ==
  { U64(k * BUFSIZ + d) : k \in {0, 1, 2, 127, 128, 129, 256}, d \in {0, 1, BUFSIZ - 1} }
  \union { [l2 |-> a, l1 |-> b, l0 |-> c] :
             a \in {0, 1, Limb - 1}, b \in {0, Limb - 1},
             c \in {0, Limb - BUFSIZ, Limb - BUFSIZ + 1, Limb - 1} }

\* Records no kernel should return: a length field of zero, one smaller than
\* the header, and one that claims more bytes than the record takes.
BadRecords ==
  { Rec(9, 0, <<120, 0>>),
    Rec(9, 8, <<120, 0>>),
    Rec(9, 2048, <<120, 0>>) }

\* The bytes a record takes in the buffer and in the count getdents64
\* returns: its d_reclen, unless the record is malformed.
Occupies(r) == IF r \in BadRecords THEN 24 ELSE r.d_reclen

\* Directories in which the kernel returns one malformed record, alone or
\* next to a well-formed one.
BadDirectories ==
  { <<b>> : b \in BadRecords }
  \union { <<g, b>> : g \in Catalog, b \in BadRecords }
  \union { <<b, g>> : g \in Catalog, b \in BadRecords }

RECURSIVE SumLen(_, _, _)
SumLen(d, from, to) ==
  IF from > to THEN 0 ELSE Occupies(d[from]) + SumLen(d, from + 1, to)

\* ------------------------------------------------------------------- state
VARIABLES
  root,        \* the path given to read_dir
  dir,         \* the records of the directory, in kernel order
  st_size,     \* the st_size fstat64 reports
  pos,         \* kernel: records of dir already returned on the descriptor
  fdOpen,      \* kernel: the descriptor is open
  errno,       \* the thread's errno
  nOpen, nFstat, nGetdents, nClose,   \* system calls issued so far
  faults,      \* system calls that failed so far
  pc,          \* where the caller's thread is
  dirfd, it_root, buf, buf_len, buf_size, buf_offset,   \* ReadDir
  ret,         \* what read_dir returned
  out,         \* what the calls of next() returned, in order
  calls,       \* calls of next() so far
  kOpenErr,    \* errno of an open that failed for good (0: none)
  kFstatErr,   \* errno of an fstat64 that failed for good (0: none)
  skipped,     \* records next() consumed without yielding them
  other        \* the state of a second thread with its own iterator, while
               \* the variables above hold that of the thread that runs

env == <<root, dir, st_size, other>>
kernel == <<pos, fdOpen, errno, nOpen, nFstat, nGetdents, nClose, faults>>
iter == <<dirfd, it_root, buf, buf_len, buf_size, buf_offset>>
hist == <<ret, out, calls, kOpenErr, kFstatErr, skipped>>
vars == <<env, kernel, pc, iter, hist>>

ZeroDirent == Rec(0, 0, <<>>)
NoEntry == [entry |-> ZeroDirent, entry_len |-> 0, namelen |-> 0, root |-> <<>>]

ItemEntry(e) == [kind |-> "Entry", entry |-> e, code |-> 0, errno |-> 0]
\* an error item: its OS error code, and the errno the kernel had set
ItemErr(c, k) == [kind |-> "Err", entry |-> NoEntry, code |-> c, errno |-> k]
ItemNone == [kind |-> "None", entry |-> NoEntry, code |-> 0, errno |-> 0]

\* What a thread and its iterator own, at the start of read_dir.
ThreadStart ==
  [pos |-> 0, fdOpen |-> FALSE, errno |-> 0,
   nOpen |-> 0, nFstat |-> 0, nGetdents |-> 0, nClose |-> 0,
   pc |-> "start",
   dirfd |-> -1, it_root |-> <<>>, buf |-> <<>>, buf_len |-> 0,
   buf_size |-> 0, buf_offset |-> 0,
   ret |-> [kind |-> "none", code |-> 0],
   out |-> <<>>, calls |-> 0,
   kOpenErr |-> 0, kFstatErr |-> 0, skipped |-> <<>>]

\* There is no second thread.
NoThread == [ThreadStart EXCEPT !.pc = "none"]

\* The state of the thread that runs.
Self ==
  [pos |-> pos, fdOpen |-> fdOpen, errno |-> errno,
   nOpen |-> nOpen, nFstat |-> nFstat, nGetdents |-> nGetdents, nClose |-> nClose,
   pc |-> pc,
   dirfd |-> dirfd, it_root |-> it_root, buf |-> buf, buf_len |-> buf_len,
   buf_size |-> buf_size, buf_offset |-> buf_offset,
   ret |-> ret,
   out |-> out, calls |-> calls,
   kOpenErr |-> kOpenErr, kFstatErr |-> kFstatErr, skipped |-> skipped]

Init ==
  /\ other = NoThread
  /\ root \in Roots
  /\ dir \in Directories
  /\ st_size \in StSizes
  /\ pos = 0 /\ fdOpen = FALSE /\ errno = 0
  /\ nOpen = 0 /\ nFstat = 0 /\ nGetdents = 0 /\ nClose = 0 /\ faults = 0
  /\ pc = "start"
  /\ dirfd = -1 /\ it_root = <<>> /\ buf = <<>> /\ buf_len = 0
  /\ buf_size = 0 /\ buf_offset = 0
  /\ ret = [kind |-> "none", code |-> 0]
  /\ out = <<>> /\ calls = 0
  /\ kOpenErr = 0 /\ kFstatErr = 0 /\ skipped = <<>>

\* ------------------------------------------------------------------ kernel
\* What the kernel may answer to a call: a value >= 0, or -errno.  A call fails
\* only while the run has faults left; a call on a closed descriptor fails
\* with EBADF.
Fails(errnos) == IF faults < MaxFaults THEN { -e : e \in errnos } ELSE {}

\* open returns the lowest descriptor that is not open.
KernelOpen ==
  {IF other.fdOpen /\ other.dirfd = 3 THEN 4 ELSE 3} \union Fails(OpenErrnos)

KernelFstat ==
  IF fdOpen THEN {0} \union Fails(FstatErrnos) ELSE { -e : e \in BadFd }

\* getdents64 writes as many whole records as fit into `bytes`, starting at the
\* position of the descriptor: the number of records written.
Fit(d, p, bytes) ==
  CHOOSE k \in 0..(Len(d) - p) :
    /\ SumLen(d, p + 1, p + k) <= bytes
    /\ \A j \in (k + 1)..(Len(d) - p) : SumLen(d, p + 1, p + j) > bytes

\* EINVAL (22) when not even the next record fits.
KernelGetdents(bytes) ==
  IF fdOpen
  THEN (IF pos < Len(dir) /\ Fit(dir, pos, bytes) = 0
        THEN {-22}
        ELSE {SumLen(dir, pos + 1, pos + Fit(dir, pos, bytes))})
       \union Fails(GetdentsErrnos)
  ELSE { -e : e \in BadFd }

\* The buffer after the kernel wrote k records of d from position p into it:
\* the new records at their offsets, and the records of earlier calls that lie
\* wholly behind the bytes written.
Written(old, d, p, k) ==
  LET n == SumLen(d, p + 1, p + k)
      new == [i \in 1..k |-> [off |-> SumLen(d, p + 1, p + i - 1), rec |-> d[p + i]]]
  IN new \o SelectSeq(old, LAMBDA b : b.off >= n)

\* The C library's wrappers (open, fstat64, syscall): a failed call returns -1
\* and leaves the error number in errno.
LibcRet(raw) == IF raw < 0 THEN -1 ELSE raw
LibcErrno(raw, old) == IF raw < 0 THEN -raw ELSE old

\* -------------------------------------------------------------------- code
\* try_posix_fn!: what the loop does with the result of one call.
try_posix_fn_NoReturn(res, e) ==
  IF res # -1 THEN "break" ELSE IF e # EINTR THEN "break" ELSE "retry"

try_posix_fn(res, e) ==
  IF res # -1 THEN "break" ELSE IF e # EINTR THEN "return" ELSE "retry"

\* usize::clamp with bounds below 2^31
Clamp(x, lo, hi) ==
  IF U64Less(x, U64(lo)) THEN lo ELSE IF U64Less(U64(hi), x) THEN hi ELSE U64Int(x)

\* x & !(m - 1) for m a power of two, m <= 2^21
AndNotLow(x, m) == [x EXCEPT !.l0 = x.l0 - (x.l0 % m)]

\* The rounding addition: st_size as usize + (BUFSIZ - 1)
RoundAddFull(size) == U64Add(size, BUFSIZ)

RoundAdd(size) == U64Add(size, BUFSIZ - 1)

buf_capacity(size) ==
  Clamp(AndNotLow(RoundAdd(size), BUFSIZ), BUFSIZ, MaxBufCapacity)

\* read_dir -> ReadDir::new, up to the open call: CString::new fails on a path
\* with an interior NUL.
read_dir ==
  /\ pc = "start"
  /\ IF \E i \in 1..Len(root) : root[i] = 0
     THEN /\ pc' = "failed"
          /\ ret' = [kind |-> "Err", code |-> -1]
     ELSE /\ pc' = "open"
          /\ ret' = ret
  /\ UNCHANGED <<env, kernel, iter, out, calls, kOpenErr, kFstatErr, skipped>>

\* one libc::open call of the try_posix_fn! loop
Open ==
  /\ pc = "open"
  /\ \E raw \in KernelOpen :
       LET res == LibcRet(raw)
           e == LibcErrno(raw, errno)
           t == try_posix_fn(res, e)
       IN /\ nOpen' = nOpen + 1
          /\ errno' = e
          /\ faults' = IF raw < 0 THEN faults + 1 ELSE faults
          /\ fdOpen' = (raw >= 0)
          /\ kOpenErr' = IF raw < 0 /\ -raw # EINTR THEN -raw ELSE kOpenErr
          /\ dirfd' = IF t = "break" THEN res ELSE dirfd
          /\ pc' = IF t = "break" THEN "fstat" ELSE IF t = "retry" THEN "open" ELSE "failed"
          /\ ret' = IF t = "return" THEN [kind |-> "Err", code |-> e] ELSE ret
  /\ UNCHANGED <<env, pos, nFstat, nGetdents, nClose>>
  /\ UNCHANGED <<it_root, buf, buf_len, buf_size, buf_offset>>
  /\ UNCHANGED <<out, calls, kFstatErr, skipped>>

\* one libc::fstat64 call of the try_posix_fn! loop; on success the rest of
\* ReadDir::new: the buffer is allocated and the iterator returned.
Fstat ==
  /\ pc = "fstat"
  /\ \E raw \in KernelFstat :
       LET res == LibcRet(raw)
           e == LibcErrno(raw, errno)
           t == try_posix_fn(res, e)
       IN /\ nFstat' = nFstat + 1
          /\ errno' = e
          /\ faults' = IF raw < 0 THEN faults + 1 ELSE faults
          /\ kFstatErr' = IF raw < 0 /\ -raw # EINTR THEN -raw ELSE kFstatErr
          /\ pc' = IF t = "break" THEN "idle" ELSE IF t = "retry" THEN "fstat" ELSE "failed"
          /\ ret' = IF t = "break" THEN [kind |-> "Ok", code |-> 0]
                    ELSE IF t = "return" THEN [kind |-> "Err", code |-> e] ELSE ret
          /\ IF t = "break"
             THEN /\ it_root' = root
                  /\ buf' = <<>>
                  /\ buf_len' = buf_capacity(st_size)
                  /\ buf_size' = 0
                  /\ buf_offset' = 0
             ELSE UNCHANGED <<it_root, buf, buf_len, buf_size, buf_offset>>
  /\ UNCHANGED <<env, pos, fdOpen, nOpen, nGetdents, nClose, dirfd>>
  /\ UNCHANGED <<out, calls, kOpenErr, skipped>>

\* The head of the loop of next(): refill when the buffer is consumed.
LoopHeadStrict(offset, size) == IF offset > size THEN "getdents" ELSE "dirent"

LoopHead(offset, size) == IF offset >= size THEN "getdents" ELSE "dirent"

\* a call of next() enters the loop
Next_call ==
  /\ pc = "idle"
  /\ calls < MaxCalls
  /\ calls' = calls + 1
  /\ pc' = LoopHead(buf_offset, buf_size)
  /\ UNCHANGED <<env, kernel, iter, ret, out, kOpenErr, kFstatErr, skipped>>

\* the getdents64 wrapper: libc::syscall(SYS_getdents64, fd, buf, bytes)
getdents64(raw) == LibcRet(raw)

\* What the inner loop of next() does with the result of getdents64.
RefillStep_NoEof(res) ==
  IF res >= 0 THEN "break"
  ELSE IF -res # EINTR THEN "error" ELSE "retry"

RefillStep(res) ==
  IF res = 0 THEN "none"
  ELSE IF res > 0 THEN "break"
  ELSE IF -res # EINTR THEN "error" ELSE "retry"

\* The cursors after a refill of n bytes.
RefilledKeepOffset(n) == [buf_size |-> n, buf_offset |-> buf_offset]

Refilled(n) == [buf_size |-> n, buf_offset |-> 0]

\* The byte count given to getdents64: self.buf.len()
BufLenShort == buf_len - 1

BufLen == buf_len

\* The items handed out so far, after the kernel has written the buffer.  A
\* DirEntry owns a boxed copy of its record (to_owned), apart from self.buf,
\* so the write does not reach it.  Owned_Borrowed is an entry that kept the
\* pointer into the buffer instead: it shows what now lies at its offset.
Owned_Borrowed(o, old, new) ==
  [i \in 1..Len(o) |->
     IF o[i].kind = "Entry" /\ \E j \in 1..Len(old) : old[j].rec = o[i].entry.entry
     THEN LET j == CHOOSE j \in 1..Len(old) : old[j].rec = o[i].entry.entry
              r == IF \E k \in 1..Len(new) : new[k].off = old[j].off
                   THEN new[CHOOSE k \in 1..Len(new) : new[k].off = old[j].off].rec
                   ELSE o[i].entry.entry
          IN [o[i] EXCEPT !.entry.entry = r]
     ELSE o[i]]

Owned(o, old, new) == o

\* one getdents64 call of the inner loop of next()
Getdents ==
  /\ pc = "getdents"
  /\ \E raw \in KernelGetdents(BufLen) :
       LET res == getdents64(raw)
           e == LibcErrno(raw, errno)
           t == RefillStep(res)
           k == IF raw > 0 THEN Fit(dir, pos, BufLen) ELSE 0
       IN /\ nGetdents' = nGetdents + 1
          /\ errno' = e
          /\ faults' = IF raw < 0 THEN faults + 1 ELSE faults
          /\ pos' = pos + k
          /\ buf' = IF raw > 0 THEN Written(buf, dir, pos, k) ELSE buf
          /\ buf_size' = IF t = "break" THEN Refilled(res).buf_size ELSE buf_size
          /\ buf_offset' = IF t = "break" THEN Refilled(res).buf_offset ELSE buf_offset
          /\ out' = LET o == Owned(out, buf, buf')
                    IN IF t = "none" THEN Append(o, ItemNone)
                       ELSE IF t = "error" THEN Append(o, ItemErr(-res, e))
                       ELSE o
          /\ pc' = IF t = "break" THEN "dirent"
                   ELSE IF t = "retry" THEN "getdents" ELSE "idle"
  /\ UNCHANGED <<env, fdOpen, nOpen, nFstat, nClose>>
  /\ UNCHANGED <<dirfd, it_root, buf_len>>
  /\ UNCHANGED <<ret, calls, kOpenErr, kFstatErr, skipped>>

\* The dirent64 at a byte offset of the buffer; where the kernel wrote no
\* record the bytes are those of vec![0; buf_capacity].
DirentAt(b, offset) ==
  IF \E i \in 1..Len(b) : b[i].off = offset
  THEN b[CHOOSE i \in 1..Len(b) : b[i].off = offset].rec
  ELSE ZeroDirent

\* DirEntry::name_bytes: namelen bytes from the start of d_name
name_bytes(e) == SubSeq(e.entry.d_name, 1, e.namelen)

\* DirEntry::path
path(e) == Join(e.root, name_bytes(e))

\* The filter of next(): ".", ".." and records with d_ino 0
SkipNameOnly(d_ino, name) == name = <<46>> \/ name = <<46, 46>>

SkipInoOnly(d_ino, name) == d_ino = 0

Skip(d_ino, name) == d_ino = 0 \/ name = <<46>> \/ name = <<46, 46>>

\* slice::from_raw_parts(dirent, d_reclen).to_owned(): the first n bytes of
\* the record.  A field the copy does not reach is -1, and d_name is cut.
CopyOf(r, n) ==
  IF n >= DirentHeader + Len(r.d_name) THEN r
  ELSE [d_ino |-> IF n >= 8 THEN r.d_ino ELSE -1,
        d_reclen |-> IF n >= 18 THEN r.d_reclen ELSE -1,
        d_name |-> SubSeq(r.d_name, 1,
                          IF n > DirentHeader THEN n - DirentHeader ELSE 0)]

\* What name_bytes may read for the filter.  When the name lies outside the
\* boxed copy the read is out of bounds: it may see any bytes (here a name
\* that is skipped and one that is not) or end the process (<<-1>>).
NameRead(e) ==
  IF DirentHeader + e.namelen <= e.entry_len THEN {name_bytes(e)}
  ELSE {<<46>>, <<63>>, <<-1>>}

\* The record part of the loop of next(): read the record at buf_offset,
\* advance, copy it into a DirEntry, and skip or yield it.  The history of
\* skipped records is cut off where a loop over a record of length zero would
\* make it grow without end; no well-formed directory gets there.
Dirent ==
  /\ pc = "dirent"
  /\ Len(skipped) <= MaxRecords
  /\ LET dirent == DirentAt(buf, buf_offset)
         d_reclen == dirent.d_reclen
         d_ino == dirent.d_ino
         dir_entry == [entry |-> CopyOf(dirent, d_reclen),
                       entry_len |-> d_reclen,
                       namelen |-> strlen(dirent.d_name),
                       root |-> it_root]
     IN /\ buf_offset' = buf_offset + d_reclen
        /\ \E name \in NameRead(dir_entry) :
             IF name = <<-1>>
             THEN /\ pc' = "crashed"
                  /\ out' = out
                  /\ skipped' = skipped
             ELSE IF Skip(d_ino, name)
             THEN /\ pc' = LoopHead(buf_offset', buf_size)
                  /\ skipped' = Append(skipped, dirent)
                  /\ out' = out
             ELSE /\ pc' = "idle"
                  /\ out' = Append(out, ItemEntry(dir_entry))
                  /\ skipped' = skipped
  /\ UNCHANGED <<env, kernel, dirfd, it_root, buf, buf_len, buf_size>>
  /\ UNCHANGED <<ret, calls, kOpenErr, kFstatErr>>

\* Drop for ReadDir: the caller lets go of the iterator between two calls.
drop_NoClose ==
  /\ pc = "idle"
  /\ pc' = "dropped"
  /\ UNCHANGED <<env, kernel, iter, hist>>

drop ==
  /\ pc = "idle"
  /\ pc' = "dropped"
  /\ nClose' = nClose + 1
  /\ fdOpen' = FALSE
  /\ UNCHANGED <<env, pos, errno, nOpen, nFstat, nGetdents, faults, iter, hist>>

Next == read_dir \/ Open \/ Fstat \/ Next_call \/ Getdents \/ Dirent \/ drop

Spec == Init /\ [][Next]_vars

\* Two threads, each with an iterator of its own over the same directory, and
\* a kernel that does not fail: Switch suspends the thread that runs and
\* resumes the other, between any two steps.  The path, the directory and
\* its size are shared and never written.
InitTwo ==
  /\ other = ThreadStart
  /\ root = <<100>>
  /\ dir \in Directories
  /\ st_size = U64(0)
  /\ pos = 0 /\ fdOpen = FALSE /\ errno = 0
  /\ nOpen = 0 /\ nFstat = 0 /\ nGetdents = 0 /\ nClose = 0
  /\ faults = MaxFaults
  /\ pc = "start"
  /\ dirfd = -1 /\ it_root = <<>> /\ buf = <<>> /\ buf_len = 0
  /\ buf_size = 0 /\ buf_offset = 0
  /\ ret = [kind |-> "none", code |-> 0]
  /\ out = <<>> /\ calls = 0
  /\ kOpenErr = 0 /\ kFstatErr = 0 /\ skipped = <<>>

\* The thread that runs takes over what the thread t owns.
Resume(t) ==
  /\ pos' = t.pos /\ fdOpen' = t.fdOpen /\ errno' = t.errno
  /\ nOpen' = t.nOpen /\ nFstat' = t.nFstat
  /\ nGetdents' = t.nGetdents /\ nClose' = t.nClose
  /\ pc' = t.pc
  /\ dirfd' = t.dirfd /\ it_root' = t.it_root /\ buf' = t.buf
  /\ buf_len' = t.buf_len /\ buf_size' = t.buf_size
  /\ buf_offset' = t.buf_offset
  /\ ret' = t.ret /\ out' = t.out /\ calls' = t.calls
  /\ kOpenErr' = t.kOpenErr /\ kFstatErr' = t.kFstatErr
  /\ skipped' = t.skipped

\* As Switch, were the position in the directory one that both iterators
\* share instead of one per descriptor.
Switch_SharedPos ==
  /\ other.pc # "none"
  /\ other' = [Self EXCEPT !.pos = other.pos]
  /\ Resume([other EXCEPT !.pos = pos])
  /\ UNCHANGED <<root, dir, st_size, faults>>

Switch ==
  /\ other.pc # "none"
  /\ other' = Self
  /\ Resume(other)
  /\ UNCHANGED <<root, dir, st_size, faults>>

NextTwo == Next \/ Switch

SpecTwo == InitTwo /\ [][NextTwo]_vars

\* A caller that keeps calling next() and never drops the iterator, on a
\* thread that keeps running.  The run starts where read_dir has returned Ok
\* without a failed call: the path, the size of the directory and the calls
\* of ReadDir::new play no part in whether next() returns.
InitLive ==
  /\ other = NoThread
  /\ root = <<100>>
  /\ dir \in Directories
  /\ st_size = U64(0)
  /\ pos = 0 /\ fdOpen = TRUE /\ errno = 0
  /\ nOpen = 1 /\ nFstat = 1 /\ nGetdents = 0 /\ nClose = 0 /\ faults = 0
  /\ pc = "idle"
  /\ dirfd = 3 /\ it_root = root /\ buf = <<>>
  /\ buf_len = buf_capacity(st_size)
  /\ buf_size = 0 /\ buf_offset = 0
  /\ ret = [kind |-> "Ok", code |-> 0]
  /\ out = <<>> /\ calls = 0
  /\ kOpenErr = 0 /\ kFstatErr = 0 /\ skipped = <<>>

NextLive == Next_call \/ Getdents \/ Dirent

SpecLive == InitLive /\ [][NextLive]_vars /\ WF_vars(NextLive)

\* A kernel that returns a malformed record.
InitBad ==
  /\ other = NoThread
  /\ root = <<100>>
  /\ dir \in BadDirectories
  /\ st_size = U64(0)
  /\ pos = 0 /\ fdOpen = FALSE /\ errno = 0
  /\ nOpen = 0 /\ nFstat = 0 /\ nGetdents = 0 /\ nClose = 0 /\ faults = 0
  /\ pc = "start"
  /\ dirfd = -1 /\ it_root = <<>> /\ buf = <<>> /\ buf_len = 0
  /\ buf_size = 0 /\ buf_offset = 0
  /\ ret = [kind |-> "none", code |-> 0]
  /\ out = <<>> /\ calls = 0
  /\ kOpenErr = 0 /\ kFstatErr = 0 /\ skipped = <<>>

SpecBad == InitBad /\ [][Next]_vars

\* The capacity of the buffer as a function of st_size: the states right after
\* a successful open of an empty directory, over the sizes of CapSizes, and
\* the fstat64 step of ReadDir::new from there.
InitCap ==
  /\ other = NoThread
  /\ root = <<100>>
  /\ dir = <<Rec(1, 24, <<46, 0>>), Rec(2, 24, <<46, 46, 0>>)>>
  /\ st_size \in CapSizes
  /\ pos = 0 /\ fdOpen = TRUE /\ errno = 0
  /\ nOpen = 1 /\ nFstat = 0 /\ nGetdents = 0 /\ nClose = 0 /\ faults = 0
  /\ pc = "fstat"
  /\ dirfd = 3 /\ it_root = <<>> /\ buf = <<>> /\ buf_len = 0
  /\ buf_size = 0 /\ buf_offset = 0
  /\ ret = [kind |-> "none", code |-> 0]
  /\ out = <<>> /\ calls = 0
  /\ kOpenErr = 0 /\ kFstatErr = 0 /\ skipped = <<>>

NextCap == Fstat

SpecCap == InitCap /\ [][NextCap]_vars

\* ------------------------------------------------------------ properties
IsNone(i) == out[i].kind = "None"
IsErr(i) == out[i].kind = "Err"
IsEntry(i) == out[i].kind = "Entry"

\* A record passes the filter the specification describes.
Passes(r) == r.d_ino # 0 /\ CStr(r.d_name) # <<46>> /\ CStr(r.d_name) # <<46, 46>>
Filtered(d) == SelectSeq(d, Passes)

\* The records of the entries yielded by the first n calls.
YieldedRecords(n) ==
  LET es == SelectSeq(SubSeq(out, 1, n), LAMBDA it : it.kind = "Entry")
  IN [i \in 1..Len(es) |-> es[i].entry.entry]

IsPrefix(a, b) == Len(a) <= Len(b) /\ a = SubSeq(b, 1, Len(a))

TotalBytes == SumLen(dir, 1, Len(dir))

\* The last call returned the first end-of-sequence, and every call before it
\* an entry.
JustDrained ==
  /\ Len(out) > 0
  /\ IsNone(Len(out))
  /\ \A i \in 1..(Len(out) - 1) : IsEntry(i)

\* C1 (as claimed): once a call of next() has returned end-of-sequence, no
\* later step issues a getdents64 call and every later call returns
\* end-of-sequence.
C1_ExhaustedIsTerminal ==
  [][(\E i \in 1..Len(out) : IsNone(i))
       => /\ nGetdents' = nGetdents
          /\ \A j \in (Len(out) + 1)..Len(out') : out'[j].kind = "None"]_vars

\* C2 (as claimed): after an error item, every later call of next() returns
\* nothing: no entry and no further error.
C2_ErrorIsTerminal ==
  \A i \in 1..Len(out) : \A j \in 1..Len(out) :
    (i < j /\ IsErr(i)) => IsNone(j)

\* C3 (as claimed): no result of read_dir and no item of next() is an error
\* caused by a call that failed with EINTR.
C3_InterruptNeverSurfaced ==
  /\ ret.kind = "Err" => ret.code # EINTR
  /\ \A i \in 1..Len(out) : IsErr(i) => out[i].errno # EINTR

\* C4: the descriptor of a constructed iterator is open until the iterator is
\* dropped, closed by exactly one close call when it is dropped, and no
\* getdents64 call is pending or issued once it is closed.
C4_HandleClosedExactlyOnce ==
  ret.kind = "Ok" =>
    /\ nClose <= 1
    /\ (pc = "dropped") <=> (nClose = 1)
    /\ fdOpen <=> (nClose = 0)
    /\ pc \in {"getdents", "dirent"} => fdOpen

\* C4 witness: an iterator dropped after it yielded an entry and an error.
C4_Witness ==
  /\ pc = "dropped" /\ nClose = 1 /\ ~fdOpen
  /\ \E i \in 1..Len(out) : IsEntry(i)
  /\ \E i \in 1..Len(out) : IsErr(i)

\* C5 (as claimed): when fstat64 fails for good after a successful open,
\* read_dir returns the error and the descriptor is closed.
C5_StatFailureReleasesHandle ==
  (kFstatErr # 0 /\ pc = "failed") => (ret.kind = "Err" /\ ~fdOpen)

\* C6: no yielded entry has identity zero or the name "." or "..", and every
\* record consumed without being yielded has identity zero or one of these
\* names.
C6_Filtering ==
  /\ \A i \in 1..Len(out) : IsEntry(i) => Passes(out[i].entry.entry)
  /\ \A i \in 1..Len(skipped) : ~Passes(skipped[i])

\* C6 witness: "..." and ".a" were yielded, and a record with identity zero
\* and one named ".." were skipped.
C6_Witness ==
  /\ \E i \in 1..Len(out) : IsEntry(i) /\ CStr(out[i].entry.entry.d_name) = <<46, 46, 46>>
  /\ \E i \in 1..Len(out) : IsEntry(i) /\ CStr(out[i].entry.entry.d_name) = <<46, 97>>
  /\ \E i \in 1..Len(skipped) : skipped[i].d_ino = 0

\* C7: while no refill has failed, the entries yielded are, in kernel order, a
\* prefix of the records of the directory that pass the filter, and all of
\* them once end-of-sequence has been returned.
C7_Completeness ==
  (\A i \in 1..Len(out) : ~IsErr(i)) =>
    /\ IsPrefix(YieldedRecords(Len(out)), Filtered(dir))
    /\ (\E i \in 1..Len(out) : IsNone(i)) => YieldedRecords(Len(out)) = Filtered(dir)

\* C7 witness: a directory drained in two batches, a skipped record among
\* them, two entries yielded.
C7_Witness ==
  /\ JustDrained
  /\ nGetdents = 3
  /\ Len(out) = 3
  /\ Len(skipped) > 0

\* C8: the path of every yielded entry is the path given to read_dir joined
\* with the bytes of the record's name field before its first NUL.
C8_Path ==
  \A i \in 1..Len(out) :
    IsEntry(i) =>
      /\ path(out[i].entry) = Join(root, CStr(out[i].entry.entry.d_name))
      /\ \E k \in 1..Len(dir) : out[i].entry.entry = dir[k]

\* C8 witness: "ab", whose name field has a byte behind the NUL, yielded under
\* the root "d/" as "d/ab".
C8_Witness ==
  /\ root = <<100, 47>>
  /\ \E i \in 1..Len(out) :
       /\ IsEntry(i)
       /\ out[i].entry.entry.d_name = <<97, 98, 0, 99>>
       /\ path(out[i].entry) = <<100, 47, 97, 98>>

\* C9: when open fails with an error other than EINTR, read_dir returns that
\* error, there is no iterator, and no fstat64, getdents64 or close call is
\* issued.
C9_OpenFailureEager ==
  kOpenErr # 0 =>
    /\ pc = "failed"
    /\ ret = [kind |-> "Err", code |-> kOpenErr]
    /\ nFstat = 0 /\ nGetdents = 0 /\ nClose = 0
    /\ out = <<>> /\ calls = 0

\* C9 witness: open interrupted once, then failing with ENOENT.
C9_Witness == kOpenErr = 2 /\ nOpen = 2 /\ pc = "failed"

\* C10 (as claimed): a directory of exactly the capacity is drained with one
\* getdents64 call, a larger one with at least two, completely.
C10_OneRefillAtCapacity ==
  JustDrained =>
    /\ TotalBytes = buf_len => nGetdents = 1
    /\ TotalBytes > buf_len => nGetdents >= 2
    /\ YieldedRecords(Len(out)) = Filtered(dir)

\* C10 (amended): a directory of exactly the capacity is drained with two
\* getdents64 calls, one that returns all records and one that returns 0; a
\* larger one with at least three, two or more of them returning records; all
\* entries are yielded in both cases.
C10_RefillCount ==
  JustDrained =>
    /\ TotalBytes = buf_len => nGetdents = 2
    /\ TotalBytes > buf_len => nGetdents >= 3
    /\ YieldedRecords(Len(out)) = Filtered(dir)

\* C10 witness: a directory of exactly the capacity, drained.
C10_Witness == JustDrained /\ TotalBytes = buf_len /\ nGetdents = 2 /\ Len(out) > 1

\* C11: the capacity is st_size rounded up to the next multiple of BUFSIZ and
\* clamped to [BUFSIZ, 1 MiB]: a multiple of BUFSIZ, BUFSIZ for size 0, 1 MiB
\* for every size above 1 MiB, the least multiple of BUFSIZ that is >= the
\* size in between; and the rounding addition has no carry out of usize.
C11_Capacity ==
  ret.kind = "Ok" =>
    /\ buf_len % BUFSIZ = 0
    /\ BUFSIZ <= buf_len /\ buf_len <= MaxBufCapacity
    /\ st_size = U64(0) => buf_len = BUFSIZ
    /\ U64Less(U64(MaxBufCapacity), st_size) => buf_len = MaxBufCapacity
    /\ (U64Less(U64(0), st_size) /\ ~U64Less(U64(MaxBufCapacity), st_size))
         => (buf_len >= U64Int(st_size) /\ buf_len - U64Int(st_size) < BUFSIZ)
    /\ U64Sum(st_size, BUFSIZ - 1).carry = 0

\* C11 witness: the capacity computed for the largest st_size, 2^63 - 1.
C11_Witness == ret.kind = "Ok" /\ st_size = MaxStSize /\ buf_len = MaxBufCapacity

\* The directory holds the records "." and "..", in either order, and no
\* other.
IsEmptyDir ==
  /\ Len(dir) = 2
  /\ \A i \in 1..2 : dir[i].d_ino # 0
  /\ {CStr(dir[i].d_name) : i \in 1..2} = {<<46>>, <<46, 46>>}

\* C12: reading an empty directory yields no entry; when no system call has
\* failed every call of next() returns end-of-sequence, the first of them
\* after skipping both "." and "..".
C12_EmptyDirectory ==
  IsEmptyDir =>
    /\ \A i \in 1..Len(out) : ~IsEntry(i)
    /\ faults = 0 => \A i \in 1..Len(out) : IsNone(i)
    /\ (faults = 0 /\ Len(out) >= 1) => skipped = dir

\* C12 witness: the first call of next() on an empty directory returned
\* end-of-sequence after two getdents64 calls and two skipped records.
C12_Witness ==
  /\ IsEmptyDir /\ faults = 0
  /\ out = <<ItemNone>> /\ calls = 1
  /\ skipped = dir /\ nGetdents = 2

\* The thread t has been given end-of-sequence.
DrainedThread(t) == \E i \in 1..Len(t.out) : t.out[i].kind = "None"

\* The records of the entries the thread t was given.
RecordsOfThread(t) ==
  LET es == SelectSeq(t.out, LAMBDA it : it.kind = "Entry")
  IN [i \in 1..Len(es) |-> es[i].entry.entry]

SeqRange(q) == {q[i] : i \in 1..Len(q)}

\* C13: two iterators over the same directory, stepped in any interleaving,
\* never hold the same open descriptor; each, once drained, has yielded the
\* filtered records of the directory whatever the other did, so two drained
\* iterators have yielded the same set of entries.
C13_TwoIterators ==
  other.pc # "none" =>
    /\ (fdOpen /\ other.fdOpen) => dirfd # other.dirfd
    /\ DrainedThread(Self) => RecordsOfThread(Self) = Filtered(dir)
    /\ DrainedThread(other) => RecordsOfThread(other) = Filtered(dir)
    /\ (DrainedThread(Self) /\ DrainedThread(other))
         => SeqRange(RecordsOfThread(Self)) = SeqRange(RecordsOfThread(other))

\* C13 witness: both iterators drained in two batches each, two entries each,
\* both descriptors still open.
C13_Witness ==
  /\ DrainedThread(Self) /\ DrainedThread(other)
  /\ Len(out) = 3 /\ Len(other.out) = 3
  /\ nGetdents = 3 /\ other.nGetdents = 3
  /\ fdOpen /\ other.fdOpen

\* The records next() has consumed so far.
Consumed == Len(skipped) + Len(SelectSeq(out, LAMBDA it : it.kind = "Entry"))

\* C14: both cursors start at 0; after every step 0 <= buf_offset <= buf_size
\* <= capacity; a successful refill sets buf_size to the byte count the kernel
\* returned and buf_offset to 0; consuming a record advances buf_offset by the
\* length of that record of the directory.
C14_Cursors ==
  /\ buf_offset = 0 /\ buf_size = 0
  /\ [][/\ 0 <= buf_offset' /\ buf_offset' <= buf_size' /\ buf_size' <= buf_len'
        /\ (pc = "fstat" /\ pc' = "idle") => (buf_offset' = 0 /\ buf_size' = 0)
        /\ (pc = "getdents" /\ pc' = "dirent")
             => /\ buf_size' = SumLen(dir, pos + 1, pos')
                /\ buf_size' > 0
                /\ buf_offset' = 0
        /\ (pc = "getdents" /\ pc' # "dirent")
             => (buf_size' = buf_size /\ buf_offset' = buf_offset)
        /\ pc = "dirent"
             => /\ Consumed < Len(dir)
                /\ buf_offset' = buf_offset + dir[Consumed + 1].d_reclen
                /\ buf_size' = buf_size]_vars

\* C14 witness: in the middle of the second batch: one of its records
\* consumed, another still ahead of the cursor.
C14_Witness ==
  /\ nGetdents = 2
  /\ 0 < buf_offset /\ buf_offset < buf_size
  /\ pos = Len(dir) /\ Len(dir) = MaxRecords

\* C15 (as claimed): the OS error code of every error item is the errno with
\* which the getdents64 call failed.
C15_ErrorCodeFaithful ==
  \A i \in 1..Len(out) : IsErr(i) => out[i].code = out[i].errno

\* C16 (as claimed): every entry yielded is the copy of a whole record
\* (header, name and terminator), and next() never consumes or copies bytes
\* beyond buf_size.
C16_NoPartialRecord ==
  /\ \A i \in 1..Len(out) :
       IsEntry(i) =>
         out[i].entry.entry_len >= DirentHeader + out[i].entry.namelen + 1
  /\ buf_offset <= buf_size

\* C17: every call of next() returns, and an iterator whose caller keeps
\* calling is eventually given end-of-sequence or an error item.
C17_Termination ==
  /\ (pc \in {"getdents", "dirent"}) ~> (pc = "idle")
  /\ (ret.kind = "Ok") ~> (\E i \in 1..Len(out) : IsNone(i) \/ IsErr(i))

\* C17 witness: a getdents64 call was interrupted, a later call of next()
\* skipped a run of two records, and the caller was given end-of-sequence.
C17_Witness ==
  /\ pc = "idle"
  /\ Len(out) >= 2 /\ IsNone(Len(out))
  /\ Len(skipped) = 2 /\ Len(dir) = 3
  /\ ~Passes(dir[2]) /\ ~Passes(dir[3])
  /\ faults > 0 /\ errno = EINTR

\* C18: an entry is immutable after it is yielded.  No step of the iterator
\* (a later call of next(), a refill that overwrites the part of the buffer
\* the record was copied from, or the drop of the iterator) changes the record
\* bytes, the copy's length, the name length, the root or path() of an item
\* already handed out.
C18_EntryImmutable ==
  [][\A i \in 1..Len(out) :
       /\ i <= Len(out')
       /\ out'[i].kind = out[i].kind
       /\ IsEntry(i) =>
            /\ out'[i].entry.entry = out[i].entry.entry
            /\ out'[i].entry.entry_len = out[i].entry.entry_len
            /\ out'[i].entry.namelen = out[i].entry.namelen
            /\ out'[i].entry.root = out[i].entry.root
            /\ path(out'[i].entry) = path(out[i].entry)]_vars

\* C18 witness: the first record of the directory was yielded from offset 0
\* of the buffer, a later refill put another record at offset 0, that record
\* was yielded too, and the iterator was dropped; the first entry still holds
\* the first record.
C18_Witness ==
  /\ pc = "dropped"
  /\ nGetdents >= 2
  /\ Len(out) >= 2 /\ IsEntry(1)
  /\ out[1].entry.entry = dir[1]
  /\ DirentAt(buf, 0) # dir[1]
  /\ \E i \in 2..Len(out) : IsEntry(i) /\ out[i].entry.entry = DirentAt(buf, 0)
  /\ path(out[1].entry) = Join(root, CStr(dir[1].d_name))

====
